---- MODULE Spec2Model ----
(***************************************************************************)
(* Model of the leverage-lens price chart of rekt-react-native:            *)
(*   src/screens/HomeScreen/PriceChart.tsx  (PriceChart, viewportFor)      *)
(* and of its Solana sign-in screen:                                       *)
(*   src/components/SolanaAuthScreen.tsx    (SolanaAuthScreen)             *)
(*                                                                         *)
(* Numbers.  The program computes in floating point; the model computes    *)
(* in exact fixed point.  Every price (currentPrice, entryPrice, anchor,   *)
(* yMin, yMax) is an integer count of 1/Scale of a price unit, and every   *)
(* input price is a whole number of price units, so that every quotient    *)
(* the program forms is exact.  Leverage and pnlSpan are counted in        *)
(* tenths (leverage 51 is 5.1x, pnlSpan 12 is 1.2).  Rounding error of     *)
(* the floating-point operations is not modelled.                          *)
(***************************************************************************)
EXTENDS Integers, Sequences, FiniteSets, TLC

\* ------------------------------------------------------------------ bounds
\* Prices on the feed and entry prices are 0..MaxPrice price units.
MaxPrice == 6

\* Anchors handed to the pure functions are 0..MaxAnchor price units.
MaxAnchor == 100

\* Authentication attempts (runs of handleSolanaAuth past its guard) that the
\* sign-in screen starts.
MaxAuthStarts == 2

\* One price unit.  Divisible by 10000 (basis points) and by every clamped
\* leverage of the model in tenths (10, 51, 100, 5000, 34000).
Scale == 10000 * 51

\* ------------------------------------------------------- program constants
\* const pnlSpan = 1.2 (in tenths)
PnlSpanTenths == 12
\* const minBandBps = 4
MinBandBps == 4
\* Math.min(displayLeverageRaw, 500) (in tenths)
LeverageCapTenths == 5000
\* const DEFAULT_MMR = 0.005, as the fraction 1/200
DefaultMmrNum == 1
DefaultMmrDen == 200
\* chartHeight = 200 (pixels)
ChartHeight == 200
\* const maxAttempts = 30 (pollForAuthSignature)
maxAttempts == 30
\* pnlTicks({ anchor, leverage: displayLeverage, span: 1 }) (in tenths)
GridSpanTenths == 10

\* ----------------------------------------------------------------- helpers
Max(a, b) == IF a >= b THEN a ELSE b
Min(a, b) == IF a <= b THEN a ELSE b
Abs(a) == IF a >= 0 THEN a ELSE 0 - a

\* useState<number | null>: null is the empty sequence, a number v is <<v>>.
None == << >>
Some(v) == << v >>

\* Input domains.
Prices == { k * Scale : k \in 0 .. MaxPrice }
\* Raw leverage in tenths: 0 (missing), 5.1x, 200x, 600x (above the cap).
Leverages == { 0, 51, 2000, 6000 }

\* Arguments of the pure functions.  Leverage in tenths: negative, missing,
\* below 1, 1x, 5.1x, 10x, 500x and 3400x (where the floor is the larger span).
Anchors == { k * Scale : k \in 0 .. MaxAnchor }
PureLeverages == { 0 - 10, 0, 5, 10, 51, 100, 5000, 34000 }
PnlSpans == { 10, 12 }
MinBands == { 4, 20 }
\* Entry prices handed to isolatedLiq: whole multiples of a unit that every
\* clamped leverage of LiqLeverages divides.  Leverage in tenths: negative,
\* missing, below 1, 1x, 2x, 10x, 200x, 500x.
Entries == { k * 10000 : k \in 0 .. MaxAnchor }
LiqLeverages == { 0 - 10, 0, 5, 10, 20, 100, 2000, 5000 }
Sides == { "long", "short" }
\* Maintenance margin ratios as fractions << numerator, denominator >>:
\* 0, 0.005 and 0.1.
Mmrs == { << 0, 1 >>, << DefaultMmrNum, DefaultMmrDen >>, << 1, 10 >> }
\* Anchors handed to pnlTicks: multiples of 4 price units (the levels are
\* quarters).  Span in tenths: 0, 0.5, 1.0, 1.2.
TickAnchors == { 4 * a : a \in Anchors }
Spans == { 0, 5, 10, 12 }
\* Prices and viewport bounds handed to calculateLinePosition, in any one
\* unit: prices below, inside and above the viewport; the bounds also
\* degenerate (yMin = yMax) and inverted.
ProjPrices == (0 - 2) .. (MaxPrice + 2)
ProjBounds == 0 .. MaxPrice
\* Anchors of the rendered PnL grid (0, 4 and 8 price units), and the raw
\* leverage of the position, trade or slider in tenths: negative, missing,
\* 0.5x, 1x, 5.1x, 200x, 500x, 600x.
GridAnchors == { 0, 4 * Scale, 8 * Scale }
RawLeverages == { 0 - 10, 0, 5, 10, 51, 2000, 5000, 6000 }

\* --------------------------------------------------------- pure functions
\* viewportFor({anchor, leverage, pnlSpan, minBandBps})
viewportForNoFloor(anchor_, leverage_, pnlSpan_, minBandBps_) ==
  LET halfSpanByL == (anchor_ \div Max(10, leverage_)) * pnlSpan_
  IN  [yMin |-> anchor_ - halfSpanByL, yMax |-> anchor_ + halfSpanByL]

viewportForSwapped(anchor_, leverage_, pnlSpan_, minBandBps_) ==
  LET halfSpanByL == (anchor_ \div Max(10, leverage_)) * pnlSpan_
      floor == (anchor_ \div 10000) * minBandBps_
      half == Max(halfSpanByL, floor)
  IN  [yMin |-> anchor_ + half, yMax |-> anchor_ - half]

viewportForFloorScaled(anchor_, leverage_, pnlSpan_, minBandBps_) ==
  LET halfSpanByL == (anchor_ \div Max(10, leverage_)) * pnlSpan_
      floor == (anchor_ \div 10000) * minBandBps_ * (Max(10, leverage_) \div 10)
      half == Max(halfSpanByL, floor)
  IN  [yMin |-> anchor_ - half, yMax |-> anchor_ + half]

viewportFor(anchor_, leverage_, pnlSpan_, minBandBps_) ==
  LET halfSpanByL == (anchor_ \div Max(10, leverage_)) * pnlSpan_
      floor == (anchor_ \div 10000) * minBandBps_
      half == Max(halfSpanByL, floor)
  IN  [yMin |-> anchor_ - half, yMax |-> anchor_ + half]

\* isolatedLiq({entry, leverage, side, mmr}), mmr the fraction mmr_[1]/mmr_[2].
\* The value returned is the fraction num/den:
\*   long:  entry * (1 - 1/L) / (1 - mmr) = (entry * (L - 1) / L) * d / (d - n)
\*   short: entry * (1 + 1/L) / (1 + mmr) = (entry * (L + 1) / L) * d / (d + n)
isolatedLiqSidesSwapped(entry_, leverage_, side_, mmr_) ==
  LET L == Max(10, leverage_)
  IN  IF side_ = "short"
        THEN [num |-> (entry_ \div L) * (L - 10) * mmr_[2], den |-> mmr_[2] - mmr_[1]]
        ELSE [num |-> (entry_ \div L) * (L + 10) * mmr_[2], den |-> mmr_[2] + mmr_[1]]

isolatedLiqIgnoresMmr(entry_, leverage_, side_, mmr_) ==
  LET L == Max(10, leverage_)
  IN  IF side_ = "long"
        THEN [num |-> (entry_ \div L) * (L - 10) * mmr_[2], den |-> mmr_[2]]
        ELSE [num |-> (entry_ \div L) * (L + 10) * mmr_[2], den |-> mmr_[2]]

isolatedLiq(entry_, leverage_, side_, mmr_) ==
  LET L == Max(10, leverage_)
  IN  IF side_ = "long"
        THEN [num |-> (entry_ \div L) * (L - 10) * mmr_[2], den |-> mmr_[2] - mmr_[1]]
        ELSE [num |-> (entry_ \div L) * (L + 10) * mmr_[2], den |-> mmr_[2] + mmr_[1]]

\* pnlTicks({anchor, leverage, span}).  The levels [-1, -0.5, -0.25, 0, 0.25,
\* 0.5, 1] are counted in quarters, so levels[i] is in units of 1/40 and
\* pnl / L = levels[i] / (4 * L).  pnlPct is in tenths of a percent.
LevelQuarters == << 0 - 4, 0 - 2, 0 - 1, 0, 1, 2, 4 >>

pnlTicksUnlevered(anchor_, leverage_, span_) ==
  LET levels == [i \in 1 .. 7 |-> LevelQuarters[i] * span_]
  IN  [i \in 1 .. 7 |->
        [pnlPct |-> levels[i] * 25,
         price |-> anchor_ + (anchor_ \div 40) * levels[i]]]

pnlTicksInverted(anchor_, leverage_, span_) ==
  LET levels == [i \in 1 .. 7 |-> LevelQuarters[i] * span_]
      L == Max(10, leverage_)
  IN  [i \in 1 .. 7 |->
        [pnlPct |-> levels[i] * 25,
         price |-> anchor_ - (anchor_ \div (4 * L)) * levels[i]]]

pnlTicksLopsided(anchor_, leverage_, span_) ==
  LET levels == [i \in 1 .. 7 |->
                  (IF i = 7 THEN 3 ELSE LevelQuarters[i]) * span_]
      L == Max(10, leverage_)
  IN  [i \in 1 .. 7 |->
        [pnlPct |-> levels[i] * 25,
         price |-> anchor_ + (anchor_ \div (4 * L)) * levels[i]]]

pnlTicks(anchor_, leverage_, span_) ==
  LET levels == [i \in 1 .. 7 |-> LevelQuarters[i] * span_]
      L == Max(10, leverage_)
  IN  [i \in 1 .. 7 |->
        [pnlPct |-> levels[i] * 25,
         price |-> anchor_ + (anchor_ \div (4 * L)) * levels[i]]]

\* calculateLinePosition(price), a closure over the render's yMin and yMax.
\* The pixel offset returned is the fraction num/den:
\*   topOffset + plotArea * (1 - (price - yMin) / range)
\*     = (topOffset * range + plotArea * (range - (price - yMin))) / range
\* A den of 0 stands for the division by range = 0.
calculateLinePositionNotInverted(price_, yMin_, yMax_) ==
  LET range == yMax_ - yMin_
      topOffset == 20
      bottomOffset == 20
      plotArea == ChartHeight - topOffset - bottomOffset
  IN  [num |-> topOffset * range + plotArea * (price_ - yMin_), den |-> range]

calculateLinePositionFullHeight(price_, yMin_, yMax_) ==
  LET range == yMax_ - yMin_
      topOffset == 20
      plotArea == ChartHeight - topOffset
  IN  [num |-> topOffset * range + plotArea * (range - (price_ - yMin_)),
       den |-> range]

calculateLinePosition(price_, yMin_, yMax_) ==
  LET range == yMax_ - yMin_
      topOffset == 20
      bottomOffset == 20
      plotArea == ChartHeight - topOffset - bottomOffset
  IN  [num |-> topOffset * range + plotArea * (range - (price_ - yMin_)),
       den |-> range]

\* ------------------------------------------------------------------ state
VARIABLES
  isPostTrade,   \* !!currentPosition || trade.status === 'open', as last rendered
  entryPrice,    \* entry price of the position or trade, 0 when there is none
  currentPrice,  \* live price, 0 when there is no price data
  leverageRaw,   \* leverage of the position, trade or slider, 0 when missing
  centerAnchor,  \* the useState value, with the effects' updates applied
  anchor,        \* anchor computed by the last render
  yMin, yMax,    \* viewport computed by the last render
  dirty,         \* a re-render is scheduled (an effect changed centerAnchor)
  jumped,        \* the recenter effect of the last render called setCenterAnchor
  lastEvent,     \* what the last props update was
  side,          \* "long" or "short", of the position, trade or slider
  projectedLiq,  \* projectedLiq computed by the last render, None for null
  args,          \* arguments of a direct call of an exported function
  result,        \* what that call returned, None before the call
  earlier,       \* the call before it (arguments and return value), None if none
  authStep,           \* the useState value of SolanaAuthScreen
  isProcessingRef,    \* isProcessingRef.current
  timer,              \* the effect's 100 ms timer is pending
  platform,           \* Platform.OS
  authSignature,      \* AsyncStorage holds an item "auth_signature"
  flows,              \* the authentication attempts: where each one is
  onAuthSuccessCalls,     \* how often onAuthSuccess was invoked
  onSignUpRequiredCalls   \* how often onSignUpRequired was invoked

chartVars == << isPostTrade, entryPrice, currentPrice, leverageRaw, centerAnchor,
                anchor, yMin, yMax, dirty, jumped, lastEvent, side, projectedLiq >>

vars == << isPostTrade, entryPrice, currentPrice, leverageRaw, centerAnchor,
           anchor, yMin, yMax, dirty, jumped, lastEvent, side, projectedLiq,
           args, result, earlier,
           authStep, isProcessingRef, timer, platform, authSignature, flows,
           onAuthSuccessCalls, onSignUpRequiredCalls >>

pureVars == << args, result, earlier >>

authVars == << authStep, isProcessingRef, timer, platform, authSignature, flows,
               onAuthSuccessCalls, onSignUpRequiredCalls >>

\* const displayLeverage = Math.max(1, Math.min(displayLeverageRaw, 500))
\* with displayLeverageRaw = leverage || 1
DisplayLeverageNoCap(raw) ==
  Max(10, IF raw # 0 THEN raw ELSE 10)

DisplayLeverage(raw) ==
  Max(10, Min(IF raw # 0 THEN raw ELSE 10, LeverageCapTenths))

\* const gatingOk = 1 / displayLeverage >= DEFAULT_MMR, for the leverage L in
\* tenths: 10 / L >= n / d.
GatingOkAlways(L) == TRUE

GatingOk(L) == 10 * DefaultMmrDen >= DefaultMmrNum * L

\* const projectedLiq = !isPostTrade && gatingOk ? isolatedLiq({entry:
\* currentPrice, leverage: displayLeverage, side, mmr: DEFAULT_MMR}) : null
ProjectedLiq(ip, p, l, sd) ==
  IF ~ ip /\ GatingOk(DisplayLeverage(l))
    THEN Some(isolatedLiq(p, DisplayLeverage(l), sd, << DefaultMmrNum, DefaultMmrDen >>))
    ELSE None

\* const anchor = isPostTrade ? (centerAnchor ?? (entryPrice || currentPrice)) : currentPrice
AnchorOfKeepsState(ip, ca, e, p) ==
  IF ca # None THEN ca[1] ELSE (IF ip /\ e # 0 THEN e ELSE p)

AnchorOf(ip, ca, e, p) ==
  IF ip
    THEN (IF ca # None THEN ca[1] ELSE (IF e # 0 THEN e ELSE p))
    ELSE p

\* The seeding effect (useEffect on [isPostTrade, entryPrice]): the state it
\* leaves, given the state ca before it.
SeedEffectForgetsClear(ip, e, ca) ==
  IF ip /\ e > 0 THEN Some(e) ELSE ca

SeedEffect(ip, e, ca) ==
  IF ip /\ e > 0 THEN Some(e) ELSE None

\* The recenter effect (useEffect on [currentPrice, isPostTrade, range, anchor]):
\* TRUE when it calls setCenterAnchor(currentPrice).
RecenterFiresAtHalf(ip, p, range, a) ==
  LET half == range \div 2
      delta == Abs(p - a)
  IN  /\ ip
      /\ ~ (half <= 0)
      /\ 2 * delta >= half

RecenterFiresStrict(ip, p, range, a) ==
  LET half == range \div 2
      delta == Abs(p - a)
  IN  /\ ip
      /\ ~ (half <= 0)
      /\ 20 * delta > 17 * half

RecenterFiresUnguarded(ip, p, range, a) ==
  LET half == range \div 2
      delta == Abs(p - a)
  IN  /\ ip
      /\ 20 * delta >= 17 * half

RecenterFires(ip, p, range, a) ==
  LET half == range \div 2
      delta == Abs(p - a)
  IN  /\ ip
      /\ ~ (half <= 0)
      /\ 20 * delta >= 17 * half

\* One evaluation of the component: the render with props (ip, e, p, l) and the
\* state ca, then the effects whose dependencies differ from the previous
\* render's (all of them on mount), in source order.
Evaluate(ip, e, p, l, ca, mount, oldSeedDeps, oldRecenterDeps) ==
  LET a == AnchorOf(ip, ca, e, p)
      vp == viewportFor(a, DisplayLeverage(l), PnlSpanTenths, MinBandBps)
      range == vp.yMax - vp.yMin
      runSeed == mount \/ << ip, e >> # oldSeedDeps
      runRecenter == mount \/ << p, ip, range, a >> # oldRecenterDeps
      ca1 == IF runSeed THEN SeedEffect(ip, e, ca) ELSE ca
      fires == runRecenter /\ RecenterFires(ip, p, range, a)
      ca2 == IF fires THEN Some(p) ELSE ca1
  IN  [anchor |-> a, yMin |-> vp.yMin, yMax |-> vp.yMax,
       centerAnchor |-> ca2, jumped |-> fires, dirty |-> ca2 # ca]

SeedDeps == << isPostTrade, entryPrice >>
RecenterDeps == << currentPrice, isPostTrade, yMax - yMin, anchor >>

\* What a props update is, for the history variable lastEvent.
EventOf(ip0, e0, p0, l0, ip, e, p, l) ==
  CASE ip0 /\ ~ ip -> "close"
    [] ~ ip0 /\ ip -> "open"
    [] ip0 /\ ip /\ e # e0 -> "entry"
    [] e = e0 /\ l = l0 /\ p # p0 -> "tick"
    [] OTHER -> "other"

\* The state after the mount render and its effects, for the props
\* (ip, e, p, l, sd).
Mounted(ip, e, p, l, sd) ==
  LET r == Evaluate(ip, e, p, l, None, TRUE, << >>, << >>)
  IN  /\ isPostTrade = ip
      /\ entryPrice = e
      /\ currentPrice = p
      /\ leverageRaw = l
      /\ centerAnchor = r.centerAnchor
      /\ anchor = r.anchor
      /\ yMin = r.yMin
      /\ yMax = r.yMax
      /\ dirty = r.dirty
      /\ jumped = r.jumped
      /\ lastEvent = "mount"
      /\ side = sd
      /\ projectedLiq = ProjectedLiq(ip, p, l, sd)

NoCall == [fn |-> "none"]

\* ------------------------------------------------- the sign-in screen
\* An authentication attempt is one run of handleSolanaAuth past its guard,
\* with everything it starts: the iOS message signing, the signature polling
\* and the backend sign-in.  phase is where the attempt is:
\*   "idle"      not started
\*   "signing"   handleiOSMessageSigning awaits signAuthMessage
\*   "polling"   poll is scheduled (or its getItem is in flight)
\*   "removing"  poll awaits AsyncStorage.removeItem
\*   "backend"   authenticateWithBackend awaits signInWithSolana
\*   "done"      nothing of the attempt is pending
\* awaited: handleSolanaAuth is still awaiting the attempt, so its finally
\* block has not run yet.  attempts: the poll's counter, kept while the poll
\* can still read it and after it ran out (no code reads it once the
\* signature is found or AsyncStorage has rejected; it is 0 again then).
AuthSlots == 1 .. MaxAuthStarts

IdleFlow == [phase |-> "idle", awaited |-> FALSE, attempts |-> 0]

\* The screen is not shown (the chart and the direct calls do not involve it).
AuthIdle ==
  /\ authStep = "verifying"
  /\ isProcessingRef = FALSE
  /\ timer = FALSE
  /\ platform = "ios"
  /\ authSignature = FALSE
  /\ flows = [i \in AuthSlots |-> IdleFlow]
  /\ onAuthSuccessCalls = 0
  /\ onSignUpRequiredCalls = 0

\* The effect on [publicKey, authStep, handleSolanaAuth], with the wallet's
\* publicKey present: whether its timer is pending after a synchronous run
\* of code that found the timer as t0, changed authStep from s0 to s1 and left
\* isProcessingRef.current as proc.  An unchanged authStep does not re-render,
\* so the effect does not run; a changed one runs the cleanup (clearTimeout)
\* and then the effect.
TimerAfter(t0, s0, s1, proc) ==
  IF s1 = s0 THEN t0 ELSE (s1 = "verifying" /\ ~ proc)

\* poll: if (attempts < maxAttempts) setTimeout(poll, 1000), with attempts
\* already incremented.
ReschedulesInclusive(attempts_) == attempts_ <= maxAttempts

Reschedules(attempts_) == attempts_ < maxAttempts

Init ==
  /\ \E ip \in BOOLEAN, e \in Prices, p \in Prices, l \in Leverages, sd \in Sides :
       Mounted(ip, e, p, l, sd)
  /\ AuthIdle
  /\ args = NoCall
  /\ result = None
  /\ earlier = None

\* The component is evaluated with the props (ip, e, p, l, sd) and with the
\* state the earlier effects left.
Receive(ip, e, p, l, sd) ==
  \E r \in { Evaluate(ip, e, p, l, centerAnchor, FALSE, SeedDeps, RecenterDeps) } :
      /\ isPostTrade' = ip
      /\ entryPrice' = e
      /\ currentPrice' = p
      /\ leverageRaw' = l
      /\ centerAnchor' = r.centerAnchor
      /\ anchor' = r.anchor
      /\ yMin' = r.yMin
      /\ yMax' = r.yMax
      /\ dirty' = r.dirty
      /\ jumped' = r.jumped
      /\ lastEvent' = EventOf(isPostTrade, entryPrice, currentPrice,
                              leverageRaw, ip, e, p, l)
      /\ side' = sd
      /\ projectedLiq' = ProjectedLiq(ip, p, l, sd)
      /\ UNCHANGED << pureVars, authVars >>

\* New props arrive: any of a price tick, a position opened or closed, an
\* entry price or a leverage changed, alone or in one update.
Update ==
  \E ip \in BOOLEAN, e \in Prices, p \in Prices, l \in Leverages :
    /\ << ip, e, p, l >> # << isPostTrade, entryPrice, currentPrice, leverageRaw >>
    /\ Receive(ip, e, p, l, side)

\* The side changes alone (the long / short toggle of the slider, or the
\* direction of the position): a render with unchanged effect dependencies.
SetSide ==
  \E sd \in Sides :
    /\ sd # side
    /\ Receive(isPostTrade, entryPrice, currentPrice, leverageRaw, sd)

\* A price tick alone: the position, entry price and leverage stay.
Tick ==
  \E p \in Prices :
    /\ p # currentPrice
    /\ Receive(isPostTrade, entryPrice, p, leverageRaw, side)

\* The re-render an effect's setCenterAnchor scheduled, with unchanged props.
Rerender ==
  /\ dirty
  /\ \E r \in { Evaluate(isPostTrade, entryPrice, currentPrice, leverageRaw,
                          centerAnchor, FALSE, SeedDeps, RecenterDeps) } :
         /\ centerAnchor' = r.centerAnchor
         /\ anchor' = r.anchor
         /\ yMin' = r.yMin
         /\ yMax' = r.yMax
         /\ dirty' = r.dirty
         /\ jumped' = r.jumped
  /\ UNCHANGED << isPostTrade, entryPrice, currentPrice, leverageRaw, lastEvent,
                  side, projectedLiq >>
  /\ UNCHANGED << pureVars, authVars >>

Next == Update \/ SetSide \/ Rerender

Spec == Init /\ [][Next]_vars

TypeOK ==
  /\ isPostTrade \in BOOLEAN
  /\ entryPrice \in Prices
  /\ currentPrice \in Prices
  /\ leverageRaw \in Leverages
  /\ centerAnchor \in { None } \cup { Some(v) : v \in Prices }
  /\ anchor \in Prices
  /\ dirty \in BOOLEAN
  /\ jumped \in BOOLEAN
  /\ side \in Sides

\* The chart under a live price feed and an unchanging position.  The
\* scheduled re-render always happens (React runs every update it queued) and
\* the feed keeps delivering price ticks.
TickNext == Tick \/ Rerender

FairSpec == Init /\ [][TickNext]_vars /\ WF_vars(Rerender) /\ WF_vars(Tick)

\* -------------------------------------------- the exported pure functions
\* A direct call of an exported function, on arguments drawn at the start; the
\* chart is mounted without a position or a price and is not involved.
ViewportArgs ==
  { [fn |-> "viewportFor", anchor |-> a, leverage |-> l, pnlSpan |-> ps,
     minBandBps |-> mb] :
      a \in Anchors, l \in PureLeverages, ps \in PnlSpans, mb \in MinBands }

LiqArgs ==
  { [fn |-> "isolatedLiq", entry |-> e, leverage |-> l, side |-> sd, mmr |-> m] :
      e \in Entries, l \in LiqLeverages, sd \in Sides, m \in Mmrs }

TickArgs ==
  { [fn |-> "pnlTicks", anchor |-> a, leverage |-> l, span |-> sp] :
      a \in TickAnchors, l \in PureLeverages, sp \in Spans }

ProjArgs ==
  { [fn |-> "calculateLinePosition", price |-> q, yMin |-> lo, yMax |-> hi] :
      q \in ProjPrices, lo \in ProjBounds, hi \in ProjBounds }

\* The PnL grid of one render, as a function of the render's anchor and of
\* the raw leverage: displayLeverage, the viewport, the grid lines and the
\* pixel offset of each line.
RenderGrid(anchor_, raw) ==
  LET displayLeverage == DisplayLeverage(raw)
      vp == viewportFor(anchor_, displayLeverage, PnlSpanTenths, MinBandBps)
      ticks == pnlTicks(anchor_, displayLeverage, GridSpanTenths)
  IN  [displayLeverage |-> displayLeverage,
       yMin |-> vp.yMin,
       yMax |-> vp.yMax,
       ticks |-> ticks,
       tops |-> [i \in 1 .. 7 |->
                  calculateLinePosition(ticks[i].price, vp.yMin, vp.yMax)]]

GridArgs ==
  { [fn |-> "PriceChart", anchor |-> a, leverage |-> l] :
      a \in GridAnchors, l \in RawLeverages }

\* The leverages a second call of the same function may use.
LeveragesOf(fn) ==
  CASE fn = "isolatedLiq" -> LiqLeverages
    [] fn = "PriceChart" -> RawLeverages
    [] OTHER -> PureLeverages

\* A second call of the same function: with another price for
\* calculateLinePosition, with another leverage for the others.
Variants(a) ==
  IF a.fn = "calculateLinePosition"
    THEN { [a EXCEPT !.price = q] : q \in ProjPrices }
    ELSE { [a EXCEPT !.leverage = l] : l \in LeveragesOf(a.fn) }

PureInit ==
  /\ Mounted(FALSE, 0, 0, 0, "short")
  /\ AuthIdle
  /\ args \in ViewportArgs \cup LiqArgs \cup TickArgs \cup ProjArgs \cup GridArgs
  /\ result = None
  /\ earlier = None

CallViewportFor ==
  /\ args.fn = "viewportFor"
  /\ result = None
  /\ result' = Some(viewportFor(args.anchor, args.leverage, args.pnlSpan,
                                args.minBandBps))
  /\ UNCHANGED << chartVars, authVars, args, earlier >>

CallIsolatedLiq ==
  /\ args.fn = "isolatedLiq"
  /\ result = None
  /\ result' = Some(isolatedLiq(args.entry, args.leverage, args.side, args.mmr))
  /\ UNCHANGED << chartVars, authVars, args, earlier >>

CallPnlTicks ==
  /\ args.fn = "pnlTicks"
  /\ result = None
  /\ result' = Some(pnlTicks(args.anchor, args.leverage, args.span))
  /\ UNCHANGED << chartVars, authVars, args, earlier >>

CallCalculateLinePosition ==
  /\ args.fn = "calculateLinePosition"
  /\ result = None
  /\ result' = Some(calculateLinePosition(args.price, args.yMin, args.yMax))
  /\ UNCHANGED << chartVars, authVars, args, earlier >>

CallRenderGrid ==
  /\ args.fn = "PriceChart"
  /\ result = None
  /\ result' = Some(RenderGrid(args.anchor, args.leverage))
  /\ UNCHANGED << chartVars, authVars, args, earlier >>

\* The same function is called once more with another leverage (another
\* price for calculateLinePosition) and otherwise the same arguments; the
\* first call is kept for comparison.
CallAgain ==
  /\ result # None
  /\ earlier = None
  /\ \E a \in Variants(args) :
       /\ a # args
       /\ args' = a
  /\ earlier' = Some([args |-> args, result |-> result[1]])
  /\ result' = None
  /\ UNCHANGED << chartVars, authVars >>

PureNext ==
  \/ CallViewportFor
  \/ CallIsolatedLiq
  \/ CallPnlTicks
  \/ CallCalculateLinePosition
  \/ CallRenderGrid
  \/ CallAgain

PureSpec == PureInit /\ [][PureNext]_vars

\* ---------------------------------------------- the sign-in screen's steps
\* The screen is mounted with the wallet connected (publicKey present): the
\* mount effect has set its 100 ms timer.
AuthInit ==
  /\ Mounted(FALSE, 0, 0, 0, "short")
  /\ args = NoCall
  /\ result = None
  /\ earlier = None
  /\ authStep = "verifying"
  /\ isProcessingRef = FALSE
  /\ timer = TRUE
  /\ platform \in { "ios", "android" }
  /\ authSignature = FALSE
  /\ flows = [i \in AuthSlots |-> IdleFlow]
  /\ onAuthSuccessCalls = 0
  /\ onSignUpRequiredCalls = 0

\* One synchronous run of code of attempt i: it leaves the attempt as flow,
\* authStep as step and isProcessingRef.current as proc; the effect runs if
\* authStep changed.
AuthStep(i, flow, step, proc, t0) ==
  /\ flows' = [flows EXCEPT ![i] = flow]
  /\ authStep' = step
  /\ isProcessingRef' = proc
  /\ timer' = TimerAfter(t0, authStep, step, proc)

\* The 100 ms timer fires and calls handleSolanaAuth, up to its first await.
TimerFires ==
  /\ timer
  /\ IF isProcessingRef
       THEN /\ timer' = FALSE
            /\ UNCHANGED << authStep, isProcessingRef, flows >>
       ELSE \E i \in AuthSlots, siwsData \in BOOLEAN :
              /\ flows[i].phase = "idle"
              /\ \A j \in AuthSlots : j < i => flows[j].phase # "idle"
              /\ CASE siwsData ->
                       \* await authenticateWithBackend(...): setAuthStep("verifying")
                       AuthStep(i, [phase |-> "backend", awaited |-> TRUE, attempts |-> 0],
                                "verifying", TRUE, FALSE)
                   [] ~ siwsData /\ platform = "ios" ->
                       \* await handleiOSMessageSigning(): setAuthStep("signing_message")
                       AuthStep(i, [phase |-> "signing", awaited |-> TRUE, attempts |-> 0],
                                "signing_message", TRUE, FALSE)
                   [] OTHER ->
                       \* router.replace("/"); return; finally
                       AuthStep(i, [phase |-> "done", awaited |-> FALSE, attempts |-> 0],
                                authStep, FALSE, FALSE)
  /\ UNCHANGED << platform, authSignature, onAuthSuccessCalls, onSignUpRequiredCalls >>
  /\ UNCHANGED << chartVars, pureVars >>

\* signAuthMessage settles for attempt i: with a signature, with
\* PENDING_AUTH_REDIRECT, or without success (or it throws).
SignResult(i) ==
  /\ flows[i].phase = "signing"
  /\ \E outcome \in { "signature", "pending", "failed" } :
       CASE outcome = "signature" ->
              \* await authenticateWithBackend(message, result.signature)
              AuthStep(i, [flows[i] EXCEPT !.phase = "backend"],
                       "verifying", isProcessingRef, timer)
         [] outcome = "pending" ->
              \* pollForAuthSignature(message) is not awaited: its first
              \* getItem is in flight, handleiOSMessageSigning returns and
              \* handleSolanaAuth's finally block runs
              AuthStep(i, [phase |-> "polling", awaited |-> FALSE, attempts |-> 0],
                       authStep, FALSE, timer)
         [] OTHER ->
              \* catch: setAuthStep("verifying"); then handleSolanaAuth's finally
              AuthStep(i, [phase |-> "done", awaited |-> FALSE, attempts |-> 0],
                       "verifying", FALSE, timer)
  /\ UNCHANGED << platform, authSignature, onAuthSuccessCalls, onSignUpRequiredCalls >>
  /\ UNCHANGED << chartVars, pureVars >>

\* poll of attempt i runs: AsyncStorage.getItem returns the stored signature,
\* returns null, or rejects.
PollRead(i) ==
  /\ flows[i].phase = "polling"
  /\ \E outcome \in { "read", "error" } :
       CASE outcome = "read" /\ authSignature ->
              \* await AsyncStorage.removeItem("auth_signature")
              AuthStep(i, [flows[i] EXCEPT !.phase = "removing", !.attempts = 0],
                       authStep, isProcessingRef, timer)
         [] outcome = "read" /\ ~ authSignature /\ Reschedules(flows[i].attempts + 1) ->
              \* attempts++; setTimeout(poll, 1000)
              AuthStep(i, [flows[i] EXCEPT !.attempts = @ + 1],
                       authStep, isProcessingRef, timer)
         [] outcome = "read" /\ ~ authSignature /\ ~ Reschedules(flows[i].attempts + 1) ->
              \* attempts++; setAuthStep("verifying")
              AuthStep(i, [flows[i] EXCEPT !.attempts = @ + 1, !.phase = "done"],
                       "verifying", isProcessingRef, timer)
         [] OTHER ->
              \* catch: setAuthStep("verifying")
              AuthStep(i, [flows[i] EXCEPT !.phase = "done", !.attempts = 0],
                       "verifying", isProcessingRef, timer)
  /\ UNCHANGED << platform, authSignature, onAuthSuccessCalls, onSignUpRequiredCalls >>
  /\ UNCHANGED << chartVars, pureVars >>

\* AsyncStorage.removeItem settles for attempt i: the item is removed and
\* authenticateWithBackend(message, storedSignature) is called, or it rejects.
RemoveResult(i) ==
  /\ flows[i].phase = "removing"
  /\ \E ok \in BOOLEAN :
       IF ok
         THEN /\ authSignature' = FALSE
              /\ AuthStep(i, [flows[i] EXCEPT !.phase = "backend"],
                          "verifying", isProcessingRef, timer)
         ELSE /\ UNCHANGED authSignature
              /\ AuthStep(i, [flows[i] EXCEPT !.phase = "done"],
                          "verifying", isProcessingRef, timer)
  /\ UNCHANGED << platform, onAuthSuccessCalls, onSignUpRequiredCalls >>
  /\ UNCHANGED << chartVars, pureVars >>

\* signInWithSolana settles for attempt i: an existing user, a new user, or
\* no success (or it throws); then, if handleSolanaAuth awaits the attempt,
\* its finally block.
BackendResult(i) ==
  /\ flows[i].phase = "backend"
  /\ \E outcome \in { "existing", "new", "failed" } :
       LET flow == [flows[i] EXCEPT !.phase = "done", !.awaited = FALSE]
           proc == IF flows[i].awaited THEN FALSE ELSE isProcessingRef
       IN  CASE outcome = "existing" ->
                  /\ AuthStep(i, flow, "completed", proc, timer)
                  /\ onAuthSuccessCalls' = onAuthSuccessCalls + 1
                  /\ UNCHANGED onSignUpRequiredCalls
             [] outcome = "new" ->
                  /\ AuthStep(i, flow, "signup_required", proc, timer)
                  /\ onSignUpRequiredCalls' = onSignUpRequiredCalls + 1
                  /\ UNCHANGED onAuthSuccessCalls
             [] OTHER ->
                  \* catch: setAuthStep("verifying"); isProcessingRef.current = false
                  /\ AuthStep(i, flow, "verifying", FALSE, timer)
                  /\ UNCHANGED << onAuthSuccessCalls, onSignUpRequiredCalls >>
  /\ UNCHANGED << platform, authSignature >>
  /\ UNCHANGED << chartVars, pureVars >>

\* The wallet's redirect arrives and its handler stores the signature.
StoreSignature ==
  /\ ~ authSignature
  /\ authSignature' = TRUE
  /\ UNCHANGED << authStep, isProcessingRef, timer, platform, flows,
                  onAuthSuccessCalls, onSignUpRequiredCalls >>
  /\ UNCHANGED << chartVars, pureVars >>

AuthNext ==
  \/ TimerFires
  \/ StoreSignature
  \/ \E i \in AuthSlots : SignResult(i)
  \/ \E i \in AuthSlots : PollRead(i)
  \/ \E i \in AuthSlots : RemoveResult(i)
  \/ \E i \in AuthSlots : BackendResult(i)

AuthSpec == AuthInit /\ [][AuthNext]_vars

\* ----------------------------------------------------------------- claims
Tracked == isPostTrade /\ entryPrice > 0

\* Half-range of the viewport around the anchor a at raw leverage l.
HalfAround(a, l) ==
  LET vp == viewportFor(a, DisplayLeverage(l), PnlSpanTenths, MinBandBps)
  IN  (vp.yMax - vp.yMin) \div 2

\* |p - a| < 0.85 * half of the viewport around a
Within85(p, a, l) == 20 * Abs(p - a) < 17 * HalfAround(a, l)

PropsUnchanged ==
  << isPostTrade, entryPrice, currentPrice, leverageRaw >>' =
    << isPostTrade, entryPrice, currentPrice, leverageRaw >>

\* C1: while Tracked with entry price and leverage unchanged, an evaluation
\* whose price is strictly within 85% of the half-range of the viewport
\* around the stored anchor leaves the stored anchor as it was.
C1_NoJumpWithinBand ==
  [][ ( /\ Tracked
        /\ isPostTrade'
        /\ entryPrice' = entryPrice
        /\ leverageRaw' = leverageRaw
        /\ centerAnchor # None
        /\ Within85(currentPrice', centerAnchor[1], leverageRaw) )
      => centerAnchor' = centerAnchor ]_vars

\* A tick moved the price off the anchor, inside the band, and the anchor stayed.
C1_Witness ==
  /\ Tracked
  /\ lastEvent = "tick"
  /\ centerAnchor # None
  /\ centerAnchor[1] > 0
  /\ currentPrice # centerAnchor[1]
  /\ Within85(currentPrice, centerAnchor[1], leverageRaw)
  /\ ~ jumped

\* C2: while Tracked with half > 0, an evaluation whose price is at or beyond
\* 85% of the half-range from the anchor it rendered with (threshold
\* inclusive) leaves the stored anchor equal to that price; the re-evaluation
\* with the same props renders with that anchor and jumps no further.
C2_JumpAtThreshold ==
  /\ [] ( ( /\ Tracked
            /\ (yMax - yMin) \div 2 > 0
            /\ 20 * Abs(currentPrice - anchor) >= 17 * ((yMax - yMin) \div 2) )
          => (jumped /\ centerAnchor = Some(currentPrice)) )
  /\ [][ (jumped /\ PropsUnchanged)
         => ( /\ ~ jumped'
              /\ anchor' = currentPrice
              /\ centerAnchor' = centerAnchor ) ]_vars

\* A tick landed exactly on the threshold, the anchor jumped to it, and the
\* re-evaluation has settled on it.
C2_Witness ==
  /\ Tracked
  /\ lastEvent = "tick"
  /\ ~ dirty
  /\ ~ jumped
  /\ anchor = currentPrice
  /\ centerAnchor = Some(currentPrice)
  /\ currentPrice # entryPrice
  /\ 20 * Abs(currentPrice - entryPrice) = 17 * HalfAround(entryPrice, leverageRaw)

\* C3: while Tracked, every evaluation shows the current price strictly
\* inside the viewport it computed.
C3_PriceInsideViewport ==
  Tracked => (yMin < currentPrice /\ currentPrice < yMax)

\* C4: the evaluation in which the position becomes open, with entry price
\* > 0, renders with anchor = entry price.
C4_OpenSeedsFromEntry ==
  [][ (~ isPostTrade /\ isPostTrade' /\ entryPrice' > 0)
      => anchor' = entryPrice' ]_vars

\* A position opened at an entry price other than the live price.
C4_Witness ==
  /\ lastEvent = "open"
  /\ Tracked
  /\ currentPrice # entryPrice
  /\ currentPrice > 0
  /\ anchor = entryPrice

\* C5: once the evaluation of an entry-price change while Tracked has
\* settled, the stored anchor is the new entry price whenever the price is
\* strictly within 85% of the half-range around the new entry price.
C5_ReseedOnEntryChange ==
  ( /\ lastEvent = "entry"
    /\ Tracked
    /\ ~ dirty
    /\ Within85(currentPrice, entryPrice, leverageRaw) )
  => centerAnchor = Some(entryPrice)

\* C6: with no open position, every evaluation renders with anchor =
\* current price.
C6_UntrackedMirrorsPrice ==
  ~ isPostTrade => anchor = currentPrice

\* The evaluation of a close that found a stored anchor (it cleared it, so a
\* re-render is scheduled) rendered with the live price.
C6_Witness ==
  /\ lastEvent = "close"
  /\ ~ isPostTrade
  /\ dirty
  /\ currentPrice > 0
  /\ currentPrice # entryPrice
  /\ anchor = currentPrice

\* C7: with no open position the stored anchor is absent after every
\* evaluation: the evaluation of the close clears it and no evaluation while
\* Untracked sets it.
C7_AbsentWhenUntracked ==
  ~ isPostTrade => centerAnchor = None

\* The close has settled and the stored anchor is absent.
C7_Witness ==
  /\ lastEvent = "close"
  /\ ~ isPostTrade
  /\ ~ dirty
  /\ centerAnchor = None

\* C8: an evaluation whose viewport is degenerate (half <= 0) skips the
\* recenter step: it does not call setCenterAnchor, so the stored anchor is
\* what it was or what the seeding effect of that evaluation made it.
C8_DegenerateSkipsRecenter ==
  /\ [] ((yMax - yMin) \div 2 <= 0 => ~ jumped)
  /\ [][ (yMax' - yMin') \div 2 <= 0
         => centerAnchor' \in
              { centerAnchor, SeedEffect(isPostTrade', entryPrice', centerAnchor) } ]_vars

\* A tick with a positive price on a stored anchor of 0: delta > 0 = 0.85 * half.
C8_Witness ==
  /\ Tracked
  /\ lastEvent = "tick"
  /\ yMin = yMax
  /\ currentPrice > 0
  /\ centerAnchor = Some(0)
  /\ ~ jumped

\* C9: while Tracked, if from some evaluation on the price is always
\* positive, the viewport eventually is non-degenerate with a positive anchor:
\* [](( [](isPostTrade /\ currentPrice > 0) ) => <>(yMin < yMax /\ anchor > 0)),
\* which is []<>(~(isPostTrade /\ currentPrice > 0) \/ (yMin < yMax /\ anchor > 0)).
C9_DegenerateIsTransient ==
  []<> ( \/ ~ (isPostTrade /\ currentPrice > 0)
         \/ (yMin < yMax /\ anchor > 0) )


\* C10: for every anchor > 0 and every leverage, viewportFor returns
\* yMin = anchor - half and yMax = anchor + half with
\* half = max(anchor * pnlSpan / max(1, leverage), anchor * minBandBps / 10000);
\* for anchor 100, leverage 10, pnlSpan 1.2, minBandBps 4 it returns 88 and 112.
C10_ViewportFormula ==
  (args.fn = "viewportFor" /\ result # None /\ args.anchor > 0) =>
    LET L == IF args.leverage > 10 THEN args.leverage ELSE 10
        bySpan == (args.anchor * args.pnlSpan) \div L
        byFloor == (args.anchor * args.minBandBps) \div 10000
        half == IF bySpan >= byFloor THEN bySpan ELSE byFloor
    IN  /\ result[1].yMin = args.anchor - half
        /\ result[1].yMax = args.anchor + half
        /\ ( ( /\ args.anchor = 100 * Scale
               /\ args.leverage = 100
               /\ args.pnlSpan = 12
               /\ args.minBandBps = 4 )
             => (result[1].yMin = 88 * Scale /\ result[1].yMax = 112 * Scale) )

\* The call of the example has returned.
C10_Witness ==
  /\ args = [fn |-> "viewportFor", anchor |-> 100 * Scale, leverage |-> 100,
             pnlSpan |-> 12, minBandBps |-> 4]
  /\ result = Some([yMin |-> 88 * Scale, yMax |-> 112 * Scale])

\* A call of viewportFor with the default pnlSpan 1.2 and minBandBps 4, an
\* anchor > 0 and a leverage >= 1 has returned.
ViewportReturned ==
  /\ args.fn = "viewportFor"
  /\ result # None
  /\ args.anchor > 0
  /\ args.leverage >= 10

DefaultConfig == args.pnlSpan = PnlSpanTenths /\ args.minBandBps = MinBandBps

\* C11: for every anchor > 0 and leverage >= 1, with the default pnlSpan and
\* minBandBps, viewportFor returns yMin < anchor < yMax.
C11_AnchorStrictlyInside ==
  (ViewportReturned /\ DefaultConfig) =>
    (result[1].yMin < args.anchor /\ args.anchor < result[1].yMax)

\* The call at the highest leverage of the model, where the span is smallest.
C11_Witness ==
  /\ ViewportReturned
  /\ DefaultConfig
  /\ args.leverage = 34000
  /\ result[1].yMin < args.anchor
  /\ args.anchor < result[1].yMax

\* C12: for a fixed anchor > 0 and leverages 1 <= L1 <= L2, the half-span
\* yMax - anchor returned for L2 is at most the one returned for L1.
C12_MonotonicCompression ==
  ( /\ ViewportReturned
    /\ earlier # None
    /\ earlier[1].args.leverage >= 10 )
  => LET first == earlier[1].result.yMax - earlier[1].args.anchor
         second == result[1].yMax - args.anchor
     IN  /\ (earlier[1].args.leverage <= args.leverage => second <= first)
         /\ (args.leverage <= earlier[1].args.leverage => first <= second)

\* Two calls at leverages 10x and 500x: the second span is strictly smaller.
C12_Witness ==
  /\ ViewportReturned
  /\ earlier # None
  /\ earlier[1].args.leverage = 100
  /\ args.leverage = 5000
  /\ result[1].yMax - args.anchor < earlier[1].result.yMax - earlier[1].args.anchor

\* C13: for every anchor > 0 and leverage >= 1 the viewport is at least
\* 2 * anchor * minBandBps / 10000 wide.
C13_FloorInvariant ==
  ViewportReturned =>
    result[1].yMax - result[1].yMin
      >= (2 * args.anchor * args.minBandBps) \div 10000

\* The call at 3400x, where the leverage-scaled span is below the floor and the
\* width is exactly the floor's.
C13_Witness ==
  /\ ViewportReturned
  /\ DefaultConfig
  /\ args.leverage = 34000
  /\ result[1].yMax - result[1].yMin
       = (2 * args.anchor * args.minBandBps) \div 10000

\* C14: for every anchor > 0 and leverage >= 1, with the default pnlSpan and
\* minBandBps, both viewport bounds are strictly positive.
C14_BoundsPositive ==
  (ViewportReturned /\ DefaultConfig) =>
    (result[1].yMin > 0 /\ result[1].yMax > 0)

\* ---------------------------------------------------------------- C15
\* const range = yMax - yMin, the divisor of calculateLinePosition, which
\* every render evaluates for currentPrice.
range == yMax - yMin

\* C15: a degenerate viewport never reaches the projector: in every reachable
\* state of the chart, including before any price is available and in
\* tracked mode with entry price 0, calculateLinePosition is only evaluated
\* with range = yMax - yMin > 0.
C15_ProjectorRangePositive == range > 0

\* ---------------------------------------------------------------- C16
LiqReturned == args.fn = "isolatedLiq" /\ result # None

\* C16: isolatedLiq returns entry * (1 - 1/L) / (1 - mmr) for a long and
\* entry * (1 + 1/L) / (1 + mmr) for a short, with L = max(1, leverage), so
\* every leverage below 1 gives the result of leverage 1; for entry = 100,
\* leverage = 10, long, mmr = 0.005 the result is 90 / 0.995 (about 90.45).
C16_LiqFormula ==
  LiqReturned =>
    LET L == IF args.leverage < 10 THEN 10 ELSE args.leverage
        n == args.mmr[1]
        d == args.mmr[2]
        r == result[1]
    IN  /\ args.side = "long" =>
             /\ r.num = (args.entry - (args.entry * 10) \div L) * d
             /\ r.den = d - n
        /\ args.side = "short" =>
             /\ r.num = (args.entry + (args.entry * 10) \div L) * d
             /\ r.den = d + n
        /\ (earlier # None /\ args.leverage <= 10 /\ earlier[1].args.leverage <= 10)
             => r = earlier[1].result
        /\ (/\ args.entry = 100 * 10000 /\ args.leverage = 100
            /\ args.side = "long" /\ n = 1 /\ d = 200)
             => /\ r.num = 90 * 10000 * 200
                /\ r.den = 199
                /\ r.num \div r.den = 904522

C16_Witness ==
  /\ LiqReturned
  /\ args.entry = 100 * 10000 /\ args.leverage = 5
  /\ args.side = "long" /\ args.mmr = << 1, 200 >>
  /\ earlier # None /\ earlier[1].args.leverage = 0 - 10
  /\ result[1] = earlier[1].result
  /\ result[1].num = 0

\* ---------------------------------------------------------------- C17
\* Two calls of isolatedLiq that differ in the leverage only, both at 1x or
\* above, on a positive entry.  Both results have the same denominator, so
\* they compare as their numerators.
LiqPair ==
  /\ LiqReturned /\ earlier # None
  /\ args.entry > 0
  /\ args.leverage >= 10 /\ earlier[1].args.leverage >= 10

LiqAtLower ==
  IF earlier[1].args.leverage < args.leverage THEN earlier[1].result.num ELSE result[1].num

LiqAtHigher ==
  IF earlier[1].args.leverage < args.leverage THEN result[1].num ELSE earlier[1].result.num

\* C17 as stated: for fixed entry > 0 and mmr and leverages 1 <= L1 < L2, the
\* long estimate strictly decreases as leverage increases and the short
\* estimate strictly increases.
C17_LongFallsShortRises ==
  LiqPair =>
    /\ args.side = "long" => LiqAtHigher < LiqAtLower
    /\ args.side = "short" => LiqAtHigher > LiqAtLower

\* C17 amended: for fixed entry > 0 and mmr and leverages 1 <= L1 < L2, the
\* long estimate strictly increases as leverage increases (towards the
\* entry from below) and the short estimate strictly decreases (towards the
\* entry from above).
C17_LongRisesShortFalls ==
  LiqPair =>
    /\ result[1].den = earlier[1].result.den
    /\ args.side = "long" => LiqAtHigher > LiqAtLower
    /\ args.side = "short" => LiqAtHigher < LiqAtLower

C17_Witness ==
  /\ LiqPair
  /\ args.side = "long" /\ args.mmr = << 1, 200 >>
  /\ earlier[1].args.leverage = 20 /\ args.leverage = 100
  /\ result[1].num > earlier[1].result.num

\* ---------------------------------------------------------------- C19
TicksReturned == args.fn = "pnlTicks" /\ result # None

\* The levels in percent.
LevelsPct == << 0 - 100, 0 - 50, 0 - 25, 0, 25, 50, 100 >>

\* C19: for every anchor > 0, leverage >= 1 and span > 0, pnlTicks returns
\* exactly 7 lines, ordered by pnlPct ascending with pnlPct = 100 * span *
\* level for the levels -1, -0.5, -0.25, 0, 0.25, 0.5, 1, whose prices are
\* strictly increasing, and whose 4th line has pnlPct = 0 and price exactly
\* the anchor.
C19_SevenIncreasingLines ==
  (TicksReturned /\ args.anchor > 0 /\ args.leverage >= 10 /\ args.span > 0) =>
    LET r == result[1]
    IN  /\ DOMAIN r = 1 .. 7
        /\ \A i \in 1 .. 7 : r[i].pnlPct = LevelsPct[i] * args.span
        /\ \A i \in 1 .. 6 : r[i].pnlPct < r[i + 1].pnlPct
        /\ \A i \in 1 .. 6 : r[i].price < r[i + 1].price
        /\ r[4].pnlPct = 0
        /\ r[4].price = args.anchor

C19_Witness ==
  /\ TicksReturned
  /\ args.anchor = 4 * Scale /\ args.leverage = 34000 /\ args.span = 12
  /\ result[1][4].price = args.anchor
  /\ result[1][5].price > result[1][4].price
  /\ result[1][7].pnlPct = 1200

\* ---------------------------------------------------------------- C20
\* C20: the grid is symmetric around the anchor: for every anchor > 0,
\* leverage and span, the i-th and (8-i)-th lines of pnlTicks have opposite
\* pnlPct and prices whose sum is 2 * anchor.
C20_SymmetricAroundAnchor ==
  (TicksReturned /\ args.anchor > 0) =>
    \A i \in 1 .. 7 :
      /\ result[1][i].pnlPct = 0 - result[1][8 - i].pnlPct
      /\ result[1][i].price + result[1][8 - i].price = 2 * args.anchor

C20_Witness ==
  /\ TicksReturned
  /\ args.anchor = 8 * Scale /\ args.leverage = 51 /\ args.span = 10
  /\ result[1][1].price < args.anchor
  /\ result[1][1].price + result[1][7].price = 2 * args.anchor
  /\ result[1][1].pnlPct = 0 - 1000

\* ---------------------------------------------------------------- C18
\* 1 / displayLeverage < DEFAULT_MMR for the clamped display leverage.
GatingFails ==
  DefaultMmrDen * 10 < DefaultMmrNum * Max(10, Min(IF leverageRaw # 0 THEN leverageRaw ELSE 10, LeverageCapTenths))

\* C18: whenever 1 / leverage < mmr for the clamped display leverage (mmr =
\* 0.005, so a leverage above 200 and up to the cap of 500), the caller
\* computes no liquidation estimate: the projected liquidation value is
\* absent, not zero and not a value kept from an earlier leverage.
C18_GatedEstimateAbsent == GatingFails => projectedLiq = None

\* Pre-trade with a price, the leverage has just been raised above 200.
C18_Witness ==
  /\ GatingFails
  /\ ~ isPostTrade /\ currentPrice > 0
  /\ lastEvent = "other"
  /\ projectedLiq = None

\* ---------------------------------------------------------------- C21
\* calculateLinePosition has returned for a viewport with yMin < yMax.
ProjReturned ==
  /\ args.fn = "calculateLinePosition" /\ result # None
  /\ args.yMin < args.yMax

\* C21: for every viewport with yMin < yMax and the fixed band (top 20,
\* bottom 20, total height 200), the projection of yMin is top + plotAreaPx
\* (180 = 20 + 160) and the projection of yMax is top (20).
C21_ProjectorEndpoints ==
  ProjReturned =>
    /\ args.price = args.yMin => result[1].num = 180 * result[1].den
    /\ args.price = args.yMax => result[1].num = 20 * result[1].den

\* Both endpoints of one viewport, one call after the other.
C21_Witness ==
  /\ ProjReturned /\ earlier # None
  /\ earlier[1].args.price = args.yMin /\ args.price = args.yMax
  /\ earlier[1].result.num = 180 * earlier[1].result.den
  /\ result[1].num = 20 * result[1].den

\* ---------------------------------------------------------------- C22
\* C22: the projector is offset = top + plotAreaPx * (1 - (price - yMin) /
\* (yMax - yMin)) with plotAreaPx = totalHeightPx - top - bottom, so it is
\* inverted: for every viewport with yMin < yMax and prices p1 < p2,
\* offset(p1) > offset(p2), and every price inside [yMin, yMax] maps inside
\* [top, top + plotAreaPx].
C22_ProjectorInverted ==
  ProjReturned =>
    LET r == result[1]
        plotAreaPx == 200 - 20 - 20
    IN  /\ r.den = args.yMax - args.yMin
        /\ r.num = 20 * r.den + plotAreaPx * (args.yMax - args.price)
        /\ (earlier # None /\ earlier[1].args.price < args.price)
             => earlier[1].result.num > r.num
        /\ (earlier # None /\ earlier[1].args.price > args.price)
             => earlier[1].result.num < r.num
        /\ (args.yMin <= args.price /\ args.price <= args.yMax)
             => /\ 20 * r.den <= r.num
                /\ r.num <= (20 + plotAreaPx) * r.den

C22_Witness ==
  /\ ProjReturned /\ earlier # None
  /\ args.yMin < earlier[1].args.price
  /\ earlier[1].args.price < args.price
  /\ args.price < args.yMax
  /\ earlier[1].result.num > result[1].num
  /\ result[1].num > 20 * result[1].den

\* ---------------------------------------------------------------- C23
\* What an explicit invalid-input outcome of a call would be: a result
\* carrying an error instead of numbers.
SignalsInvalidInput(r) == "error" \in DOMAIN r

\* C23: contract violations without a safe default are made explicit to the
\* caller: for a non-positive anchor viewportFor, and for a non-positive
\* entry isolatedLiq, signals an invalid-input condition instead of
\* returning a number pair or a number; only a leverage below 1 is silently
\* clamped to 1.
C23_InvalidInputSignalled ==
  /\ (args.fn = "viewportFor" /\ result # None /\ args.anchor <= 0)
       => SignalsInvalidInput(result[1])
  /\ (args.fn = "isolatedLiq" /\ result # None /\ args.entry <= 0)
       => SignalsInvalidInput(result[1])

\* ---------------------------------------------------------------- C24
GridReturned == args.fn = "PriceChart" /\ result # None

\* C24: the leverage handed to viewportFor, isolatedLiq and pnlTicks is always
\* within [1, 500], for every raw leverage coming from the position, the
\* trade or the slider, including a missing, zero or negative one.
C24_LeverageWithinCap ==
  GridReturned =>
    /\ 10 <= result[1].displayLeverage
    /\ result[1].displayLeverage <= 5000

\* A raw 600x is handed on as 500x, after a negative one handed on as 1x.
C24_Witness ==
  /\ GridReturned /\ earlier # None
  /\ earlier[1].args.leverage < 0 /\ earlier[1].result.displayLeverage = 10
  /\ args.leverage = 6000 /\ result[1].displayLeverage = 5000

\* ---------------------------------------------------------------- C27
\* C27: all 7 PnL grid lines drawn by the chart (pnlTicks with span 1) lie
\* strictly inside the viewport computed by viewportFor with pnlSpan 1.2 for
\* the same anchor > 0 and the same clamped leverage, so every grid line
\* projects inside the plot area, for every leverage in [1, 500].
C27_GridInsideViewport ==
  (GridReturned /\ args.anchor > 0) =>
    LET r == result[1]
    IN  \A i \in 1 .. 7 :
          /\ r.yMin < r.ticks[i].price
          /\ r.ticks[i].price < r.yMax
          /\ r.tops[i].den > 0
          /\ 20 * r.tops[i].den < r.tops[i].num
          /\ r.tops[i].num < 180 * r.tops[i].den

\* At 500x the outermost lines are at anchor * (1 -/+ 0.002), inside the
\* viewport of anchor * (1 -/+ 0.0024).
C27_Witness ==
  /\ GridReturned
  /\ args.anchor = 4 * Scale /\ args.leverage = 6000
  /\ result[1].ticks[7].price = args.anchor + args.anchor \div 500
  /\ result[1].ticks[7].price < result[1].yMax
  /\ result[1].ticks[1].price > result[1].yMin

\* ---------------------------------------------------------------- C25
\* const liqToShow = isPostTrade ? liquidationPrice : projectedLiq || undefined,
\* for a render without a position: a projectedLiq of null or of 0 is
\* undefined (None).
liqToShowPreTrade ==
  IF projectedLiq # None /\ projectedLiq[1].num # 0 THEN projectedLiq ELSE None

\* No position, and a positive current price.
PreTradeWithPrice == ~ isPostTrade /\ currentPrice > 0

\* C25: pre-trade with a positive current price, the displayed liquidation
\* value is present exactly when the gating condition 1 / leverage >= mmr
\* holds: for every side and every clamped leverage from 1 to 200 a projected
\* estimate is shown, including long at leverage 1 where the formula yields 0.
C25_ShownIffGatingHolds ==
  PreTradeWithPrice => (liqToShowPreTrade # None <=> ~ GatingFails)

\* ---------------------------------------------------------------- C26
\* C26: pre-trade, whenever a projected liquidation estimate is shown (gating
\* holds, mmr = 0.005, current price > 0), it lies inside the viewport on the
\* loss side of the anchor: yMin < liq <= anchor for long and
\* anchor <= liq < yMax for short, for every leverage in [1, 200].
C26_LiqOnLossSide ==
  (PreTradeWithPrice /\ liqToShowPreTrade # None) =>
    LET liq == liqToShowPreTrade[1]
    IN  /\ liq.den > 0
        /\ side = "long" =>
             /\ yMin * liq.den < liq.num
             /\ liq.num <= anchor * liq.den
        /\ side = "short" =>
             /\ anchor * liq.den <= liq.num
             /\ liq.num < yMax * liq.den

\* A long at 200x: the estimate is exactly the anchor.
C26_Witness ==
  /\ PreTradeWithPrice /\ liqToShowPreTrade # None
  /\ side = "long" /\ leverageRaw = 2000
  /\ liqToShowPreTrade[1].num = anchor * liqToShowPreTrade[1].den
  /\ yMin < anchor

\* ---------------------------------------------------------------- C28
\* Attempt i has started and something of it is still pending: its message
\* signing, its signature polling or its backend sign-in.
InProgress(i) == flows[i].phase \in { "signing", "polling", "removing", "backend" }

\* C28: at most one authentication attempt is in progress at any time: while
\* an attempt started by handleSolanaAuth has not finished (its iOS message
\* signing, its signature polling and its backend sign-in included), no
\* second attempt starts a message signing or a backend sign-in, under every
\* interleaving of the mount effect, the 100 ms timer, the poll timer and the
\* async results.
C28_OneAttemptInProgress ==
  Cardinality({ i \in AuthSlots : InProgress(i) }) <= 1

\* ---------------------------------------------------------------- C29
\* A step from a state whose authStep is 'completed' or 'signup_required'
\* leaves authStep alone and invokes neither callback.
TerminalStepKept ==
  authStep \in { "completed", "signup_required" } =>
    /\ authStep' = authStep
    /\ onAuthSuccessCalls' = onAuthSuccessCalls
    /\ onSignUpRequiredCalls' = onSignUpRequiredCalls

\* C29: once authStep is 'completed' or 'signup_required', no later step of
\* any authentication flow changes it again, and onAuthSuccess and
\* onSignUpRequired are not invoked a second time.
C29_TerminalStepIsFinal == [][TerminalStepKept]_vars

\* ---------------------------------------------------------------- C30
\* The polling of attempt i is running before the step and over after it.
PollingEnds(i) ==
  /\ flows[i].phase \in { "polling", "removing" }
  /\ flows'[i].phase \notin { "polling", "removing" }

\* It ends with the signature found: the item is no longer stored when
\* authenticateWithBackend is called with it.
EndsByFinding(i) ==
  /\ flows[i].phase = "removing"
  /\ flows'[i].phase = "backend"
  /\ ~ authSignature'

\* It ends after the 30th empty read: authStep is 'verifying' and no poll is
\* scheduled.
EndsByTimeout(i) ==
  /\ flows[i].phase = "polling"
  /\ flows'[i].attempts = 30
  /\ flows'[i].phase = "done"
  /\ authStep' = "verifying"

\* It ends because AsyncStorage rejected: authStep is 'verifying' and no poll
\* is scheduled.
EndsByStorageError(i) ==
  /\ flows'[i].attempts = 0
  /\ flows'[i].phase = "done"
  /\ authStep' = "verifying"

\* The stored signature is read at most 30 times: the empty reads are
\* counted by attempts, and a read that finds the signature follows at most
\* 29 empty ones.
ReadsBounded(i) ==
  /\ flows[i].attempts <= 30
  /\ flows[i].phase = "polling" => flows[i].attempts <= 29

\* C30 as stated: pollForAuthSignature reads the stored signature at most 30
\* times; it ends either by finding a signature, which is removed from
\* storage before it is passed once to authenticateWithBackend, or after the
\* 30th empty read by setting authStep to 'verifying' and scheduling no
\* further poll.
C30_PollingEndsTwoWays ==
  [][\A i \in AuthSlots :
       ReadsBounded(i) /\ (PollingEnds(i) => (EndsByFinding(i) \/ EndsByTimeout(i)))]_vars

\* C30 amended: pollForAuthSignature reads the stored signature at most 30
\* times; it ends by finding a signature, which is removed from storage
\* before it is passed once to authenticateWithBackend, or after the 30th
\* empty read, or when AsyncStorage rejects a getItem or the removeItem; in
\* the last two cases it sets authStep to 'verifying' and schedules no
\* further poll.
EndsAsCoded(i) == EndsByFinding(i) \/ EndsByTimeout(i) \/ EndsByStorageError(i)

C30_PollingEndsThreeWays ==
  [][\A i \in AuthSlots :
       ReadsBounded(i) /\ (PollingEnds(i) => EndsAsCoded(i))]_vars

\* A polling that ran into the 30th empty read.
C30_Witness ==
  \E i \in AuthSlots :
    /\ flows[i].phase = "done"
    /\ flows[i].attempts = 30
    /\ authStep = "verifying"

====
